---------------------------- MODULE Spec2Model ----------------------------
(***************************************************************************)
(* A model of src/src/services/llm-integration-service.ts: the provider    *)
(* registry, the response cache, and LLMService.sendRequest with its       *)
(* streaming path and its fallback re-invocation.                          *)
(*                                                                         *)
(* An optional string field (provider, model) that is absent holds the     *)
(* value Undefined; an optional number (maxTokens, temperature) is <<>>    *)
(* when absent and <<n>> when given.  Temperatures are in tenths.          *)
(***************************************************************************)
EXTENDS Integers, Sequences, FiniteSets, TLC

\* ------------------------------------------------------------- bounds
MaxTicks == 1
MaxText == 2
MaxLines == 2

\* two calls in flight at a time; any number of calls over time
Calls == {1, 2}

\* ---------------------------------------------------------- JS values
Undefined == "<undefined>"
NoNum == <<>>

TruthyStr(s) == s # Undefined /\ s # ""
TruthyNum(n) == n # NoNum /\ n[1] # 0

\* `${x}` of a number given in tenths: 7 -> "0.7", 10 -> "1", 15 -> "1.5"
FormatTenths(t) ==
    IF t % 10 = 0 THEN ToString(t \div 10)
    ELSE ToString(t \div 10) \o "." \o ToString(t % 10)

\* ------------------------------------------------------------ registry
VARIABLES env

ProviderKeys == <<"openai", "claude", "deepseek">>
KeySet == {ProviderKeys[i] : i \in 1..Len(ProviderKeys)}
Credentials == {"", "sk"}

LLM_PROVIDERS ==
    [k \in KeySet |->
        CASE k = "openai" ->
               [name |-> "OpenAI", apiKey |-> env[k],
                models |-> <<"gpt-4-turbo", "gpt-3.5-turbo">>,
                streamingSupport |-> TRUE, priority |-> 1]
          [] k = "claude" ->
               [name |-> "Claude", apiKey |-> env[k],
                models |-> <<"claude-3-5-sonnet">>,
                streamingSupport |-> TRUE, priority |-> 2]
          [] k = "deepseek" ->
               [name |-> "DeepSeek", apiKey |-> env[k],
                models |-> <<"deepseek-chat">>,
                streamingSupport |-> FALSE, priority |-> 3]]

\* Object.values(LLM_PROVIDERS): the configurations in declaration order
ObjectValues == [i \in 1..Len(ProviderKeys) |-> LLM_PROVIDERS[ProviderKeys[i]]]

NoProvider == [name |-> Undefined]

HasApiKey(provider) == provider.apiKey # ""

\* .filter(provider => provider.apiKey)
FilterAvailable(s) == SelectSeq(s, HasApiKey)

\* a comparator with its operands exchanged
ByPriority_Descending(a, b) == b.priority - a.priority

\* the comparator (a, b) => a.priority - b.priority
ByPriority(a, b) == a.priority - b.priority

\* Array.prototype.sort with that comparator: a stable insertion sort
RECURSIVE Insert(_, _)
Insert(x, s) ==
    IF s = <<>> THEN <<x>>
    ELSE IF ByPriority(x, s[Len(s)]) < 0
         THEN Insert(x, SubSeq(s, 1, Len(s) - 1)) \o <<s[Len(s)]>>
         ELSE s \o <<x>>

RECURSIVE SortByPriority(_)
SortByPriority(s) ==
    IF s = <<>> THEN <<>>
    ELSE Insert(s[Len(s)], SortByPriority(SubSeq(s, 1, Len(s) - 1)))

getAvailableProviders == SortByPriority(FilterAvailable(ObjectValues))

\* a resolution that skips the test of the requested name
getBestProvider_IgnoresName(requestedProvider) ==
    LET availableProviders == SortByPriority(FilterAvailable(ObjectValues))
    IN  IF Len(availableProviders) > 0 THEN availableProviders[1] ELSE NoProvider
getBestProvider(requestedProvider) ==
    IF /\ TruthyStr(requestedProvider)
       /\ requestedProvider \in KeySet
       /\ HasApiKey(LLM_PROVIDERS[requestedProvider])
    THEN LLM_PROVIDERS[requestedProvider]
    ELSE LET availableProviders == SortByPriority(FilterAvailable(ObjectValues))
         IN  IF Len(availableProviders) > 0 THEN availableProviders[1] ELSE NoProvider

\* --------------------------------------------------------------- cache
CACHE_DURATION == 30 * 60 * 1000

\* a key that leaves the requested provider out
createCacheKey_NoProvider(request) ==
    "auto" \o "-" \o
    (IF TruthyStr(request.model) THEN request.model ELSE "default") \o "-" \o
    (IF TruthyNum(request.maxTokens) THEN ToString(request.maxTokens[1]) ELSE "0") \o "-" \o
    (IF TruthyNum(request.temperature) THEN FormatTenths(request.temperature[1]) ELSE "0.7")
    \o "-" \o request.prompt
createCacheKey(request) ==
    (IF TruthyStr(request.provider) THEN request.provider ELSE "auto") \o "-" \o
    (IF TruthyStr(request.model) THEN request.model ELSE "default") \o "-" \o
    (IF TruthyNum(request.maxTokens) THEN ToString(request.maxTokens[1]) ELSE "0") \o "-" \o
    (IF TruthyNum(request.temperature) THEN FormatTenths(request.temperature[1]) ELSE "0.7")
    \o "-" \o request.prompt


\* ------------------------------------------------------------- adapter
SystemPrompt == "Esti un asistent specializat"

formatPromptForProvider(provider, prompt, model) ==
    CASE provider.name = "OpenAI" ->
           [threw |-> FALSE,
            data |-> [model |-> IF TruthyStr(model) THEN model ELSE provider.models[1],
                      messages |-> <<[role |-> "system", content |-> SystemPrompt],
                                     [role |-> "user", content |-> prompt]>>,
                      system |-> Undefined, max_tokens |-> 1000, temperature |-> 7]]
      [] provider.name = "Claude" ->
           [threw |-> FALSE,
            data |-> [model |-> IF TruthyStr(model) THEN model ELSE provider.models[1],
                      messages |-> <<[role |-> "user", content |-> prompt]>>,
                      system |-> SystemPrompt, max_tokens |-> 1000, temperature |-> 7]]
      [] provider.name = "DeepSeek" ->
           [threw |-> FALSE,
            data |-> [model |-> IF TruthyStr(model) THEN model ELSE provider.models[1],
                      messages |-> <<[role |-> "system", content |-> SystemPrompt],
                                     [role |-> "user", content |-> prompt]>>,
                      system |-> Undefined, max_tokens |-> 1000, temperature |-> 7]]
      [] OTHER -> [threw |-> TRUE, message |-> "Provider necunoscut: " \o provider.name]

\* A response body: each field is <<>> when missing and <<v>> when present.
\*   choices : a list of [message : optional [content : string]]
\*   content : a list of [text : string]
\*   usage   : optional record of counters (0 for a missing counter)
TypeErrorMessage == "Cannot read properties of undefined (reading '0')"

\* list[0]?.message?.content || ''
FirstMessageContent(list) ==
    IF list = <<>> THEN ""
    ELSE IF list[1].message = <<>> THEN ""
    ELSE IF TruthyStr(list[1].message[1].content) THEN list[1].message[1].content
    ELSE ""

\* list[0]?.text || ''
FirstText(list) ==
    IF list = <<>> THEN ""
    ELSE IF TruthyStr(list[1].text) THEN list[1].text
    ELSE ""

extractResponseFromProvider(provider, responseData) ==
    CASE provider.name \in {"OpenAI", "DeepSeek"} ->
           IF responseData.choices = <<>>
           THEN [threw |-> TRUE, message |-> TypeErrorMessage]
           ELSE [threw |-> FALSE, text |-> FirstMessageContent(responseData.choices[1])]
      [] provider.name = "Claude" ->
           IF responseData.content = <<>>
           THEN [threw |-> TRUE, message |-> TypeErrorMessage]
           ELSE [threw |-> FALSE, text |-> FirstText(responseData.content[1])]
      [] OTHER -> [threw |-> TRUE, message |-> "Provider necunoscut: " \o provider.name]

NoUsage == <<>>

extractTokenUsage(provider, responseData) ==
    LET u == IF responseData.usage = <<>>
             THEN [prompt_tokens |-> 0, completion_tokens |-> 0, total_tokens |-> 0,
                   input_tokens |-> 0, output_tokens |-> 0]
             ELSE responseData.usage[1]
    IN CASE provider.name \in {"OpenAI", "DeepSeek"} ->
              <<[prompt |-> u.prompt_tokens, completion |-> u.completion_tokens,
                 total |-> u.total_tokens]>>
         [] provider.name = "Claude" ->
              <<[prompt |-> u.input_tokens, completion |-> u.output_tokens,
                 total |-> u.input_tokens + u.output_tokens]>>
         [] OTHER -> NoUsage


\* --------------------------------------------------------------- state
VARIABLES
    now,            \* Date.now(), in milliseconds
    responseCache,  \* cache key -> [response, timestamp]
    call,           \* per slot: a sendRequest call in progress, its position and locals
    stored,         \* history: fingerprint -> [response, at], the latest store since the last clearCache
    wiped,          \* history: the fingerprints that clearCache removed, remembered
                    \* as long as nothing happens but calls in flight settling
    resolved,       \* the last getBestProvider call: its argument and its result
    listed,         \* the last getAvailableProviders call: its result
    insights,       \* the last suggestInsights call: the response text and its result
    seen            \* history, per slot: what the stream has delivered to the handler

vars == <<insights, seen, env, now, responseCache, call, stored, wiped, resolved, listed>>

TickMs == 30 * 60 * 1000

EmptyMap == [k \in {} |-> 0]

\* ------------------------------------------------------------- inputs
ReqProviders == {Undefined, "claude"}
ReqPrompts == {"p"}
ReqModels == {Undefined}
ReqMaxTokens == {NoNum}
ReqTemperatures == {NoNum}

\* streaming, onStreamingUpdate
ReqModes == {<<FALSE, FALSE>>, <<TRUE, FALSE>>, <<TRUE, TRUE>>}

Requests ==
    { [prompt |-> p, model |-> m, maxTokens |-> mt, temperature |-> t,
       provider |-> pr, streaming |-> md[1], onStreamingUpdate |-> md[2]] :
        p \in ReqPrompts, m \in ReqModels, mt \in ReqMaxTokens, t \in ReqTemperatures,
        pr \in ReqProviders, md \in ReqModes }

\* requests that put the key to the test: a model or a prompt that contains
\* the separator, and a temperature that is absent or an explicit 0
KeyFields == {<<"m", "p">>, <<"m", "0-0.7-p">>, <<"m-0-0.7", "p">>}
KeyTemperatures == {NoNum, <<0>>}

KeyRequests ==
    { [prompt |-> f[2], model |-> f[1], maxTokens |-> NoNum, temperature |-> t,
       provider |-> Undefined, streaming |-> FALSE, onStreamingUpdate |-> FALSE] :
        f \in KeyFields, t \in KeyTemperatures }

\* const cacheKey = createCacheKey(request), for every request of the model
cacheKey == [request \in Requests \cup KeyRequests |-> createCacheKey(request)]

Usage(n) ==
    <<[prompt_tokens |-> n, completion_tokens |-> n, total_tokens |-> 2 * n,
       input_tokens |-> n, output_tokens |-> n]>>

BodyText(t, n) ==
    [choices |-> << <<[message |-> <<[content |-> t]>>]>> >>,
     content |-> << <<[text |-> t]>> >>,
     usage |-> Usage(n)]

BodyEmptyList == [choices |-> << <<>> >>, content |-> << <<>> >>, usage |-> <<>>]
BodyNoList == [choices |-> <<>>, content |-> <<>>, usage |-> <<>>]

Bodies == {BodyText("a", 1), BodyText("b", 2), BodyNoList}

TransportErrors == {"Network Error"}

\* one line of a stream chunk, as the handler classifies it
Line(kind, body) == [kind |-> kind, body |-> body]
StreamLines ==
    {Line("json", BodyText("a", 0)), Line("json", BodyNoList), Line("done", BodyNoList),
     Line("other", BodyNoList)}
\* the chunks a stream delivers: text frames and the [DONE] sentinel
StreamChunks ==
    LET frames(n) == [i \in 1..n |-> Line("json", BodyText("a", 0))] IN
    UNION {{frames(n)} \cup {[frames(n) EXCEPT ![k] = Line("done", BodyNoList)] : k \in 1..n} :
              n \in 1..MaxLines}

\* --------------------------------------------------------- sendRequest
CommunicationPrefix == "Eroare la comunicarea cu API-ul LLM: "

\* the same message behind the prefix of the catch block
NoProviderMessage_Wrapped ==
    CommunicationPrefix \o "Nu a fost gasit niciun provider LLM disponibil. Verificati cheile API."

\* line 255
NoProviderMessage == "Nu a fost gasit niciun provider LLM disponibil. Verificati cheile API."

NoRequest ==
    [prompt |-> "", model |-> Undefined, maxTokens |-> NoNum, temperature |-> NoNum,
     provider |-> Undefined, streaming |-> FALSE, onStreamingUpdate |-> FALSE]

NoResult == [none |-> TRUE]

\* pc      where the call is: idle, awaitPost, done (returned), failed (threw),
\*         streaming (result delivered, the data handler still registered on an
\*         open stream)
\* req     the caller's request; cur: the request of the innermost invocation
\* depth   how many times sendRequest has re-invoked itself
\* posts   axios.post calls issued; fails: dispatches that failed
\* via     which return was taken: cache, sync, stream, or throw
\* prev    the provider of the last failed dispatch
\* cause   the message of the error that made the call fail
\* raced   at its completion the cache held an entry that a concurrent call
\*         had stored since this call's cache check
IdleCall ==
    [pc |-> "idle", req |-> NoRequest, cur |-> NoRequest, depth |-> 0, posts |-> 0,
     fails |-> 0, provider |-> NoProvider, model |-> Undefined, streamPath |-> FALSE,
     via |-> "none", result |-> NoResult, stream |-> FALSE, accumulatedText |-> "",
     updates |-> <<>>, prev |-> Undefined, cause |-> "",
     sawExpired |-> FALSE, raced |-> FALSE]

\* the request fields that identify a cache entry, with their defaults
Fingerprint(request) ==
    <<IF request.provider = Undefined THEN "auto" ELSE request.provider,
      IF request.model = Undefined THEN "default" ELSE request.model,
      IF request.maxTokens = NoNum THEN <<0>> ELSE request.maxTokens,
      IF request.temperature = NoNum THEN <<7>> ELSE request.temperature,
      request.prompt>>

\* a freshness test that still accepts an entry exactly CACHE_DURATION old
CacheHit_Inclusive(request) ==
    /\ cacheKey[request] \in DOMAIN responseCache
    /\ now - responseCache[cacheKey[request]].timestamp <= CACHE_DURATION

\* lines 243-245: the entry exists and is younger than CACHE_DURATION
CacheHit(request) ==
    /\ cacheKey[request] \in DOMAIN responseCache
    /\ now - responseCache[cacheKey[request]].timestamp < CACHE_DURATION

\* line 266: which branch the dispatch takes
TakesStreamPath(request, provider) ==
    request.streaming /\ provider.streamingSupport /\ request.onStreamingUpdate

\* a re-invocation that keeps the requested provider
FallbackRequest_Same(request) == request

\* line 369: the request of the re-invocation
FallbackRequest(request) == [request EXCEPT !.provider = Undefined]

\* an error that drops the prefix
CommunicationError_Bare(message) == [error |-> message]

\* line 373: the error thrown when no fallback applies
CommunicationError(message) == [error |-> CommunicationPrefix \o message]

RECURSIVE Enter(_, _, _), Catch(_, _)

\* sendRequest from its entry to its first await, return or throw, for the
\* call whose record is rec, invoked with request at recursion depth d
Enter(rec, request, d) ==
    IF ~request.streaming /\ CacheHit(request)
    THEN [rec EXCEPT !.pc = "done", !.cur = request, !.depth = d, !.via = "cache",
                     !.result = responseCache[cacheKey[request]].response]
    ELSE LET provider == getBestProvider(request.provider) IN
         IF provider = NoProvider
         THEN [rec EXCEPT !.pc = "failed", !.cur = request, !.depth = d, !.via = "throw",
                          !.result = [error |-> NoProviderMessage]]
         ELSE LET selectedModel == IF TruthyStr(request.model) THEN request.model
                                   ELSE provider.models[1]
                  requestData == formatPromptForProvider(provider, request.prompt, selectedModel)
              IN  IF requestData.threw
                  THEN Catch([rec EXCEPT !.cur = request, !.depth = d,
                                         !.provider = provider, !.model = selectedModel],
                             requestData.message)
                  ELSE [rec EXCEPT !.pc = "awaitPost", !.cur = request, !.depth = d,
                                   !.provider = provider, !.model = selectedModel,
                                   !.streamPath = TakesStreamPath(request, provider),
                                   !.posts = @ + 1]

\* lines 361-374: the catch block, entered with the thrown error's message
Catch(rec, message) ==
    IF TruthyStr(rec.cur.provider)
    THEN Enter([rec EXCEPT !.fails = @ + 1, !.prev = rec.provider.name],
               FallbackRequest(rec.cur), rec.depth + 1)
    ELSE [rec EXCEPT !.pc = "failed", !.via = "throw", !.fails = @ + 1,
                     !.prev = rec.provider.name, !.cause = message,
                     !.result = CommunicationError(message)]

\* lines 345-350: the response of the synchronous path
SyncResponse(rec, body) ==
    [text |-> extractResponseFromProvider(rec.provider, body).text,
     provider |-> rec.provider.name,
     model |-> rec.model,
     tokenUsage |-> extractTokenUsage(rec.provider, body)]

\* a streaming response that reports a token usage
StreamResponse_WithUsage(rec, accumulatedText) ==
    [text |-> accumulatedText,
     provider |-> rec.provider.name,
     model |-> rec.model,
     tokenUsage |-> Usage(0)]

\* lines 320-324: the response of the streaming path
StreamResponse(rec, accumulatedText) ==
    [text |-> accumulatedText,
     provider |-> rec.provider.name,
     model |-> rec.model,
     tokenUsage |-> NoUsage]

\* a completion that stores nothing
CachePut_Dropped(cache, request, response) == cache

\* a put that leaves an existing entry in place
CachePut_IfAbsent(cache, request, response) ==
    cache @@ (cacheKey[request] :> [response |-> response, timestamp |-> now])

\* lines 353-357: responseCache[cacheKey] = {response, timestamp: Date.now()}
CachePut(cache, request, response) ==
    (cacheKey[request] :> [response |-> response, timestamp |-> now]) @@ cache

\* a clear that deletes nothing
ClearedCache_Kept(cache) == cache

\* lines 464-466: delete every key
ClearedCache(cache) == EmptyMap

\* a loop that gives up on the chunk at the first frame that throws
RECURSIVE ProcessLines_AbortOnThrow(_, _, _)
ProcessLines_AbortOnThrow(provider, lines, st) ==
    IF lines = <<>> THEN st
    ELSE LET line == Head(lines) IN
         IF line.kind \in {"other", "blank"}
         THEN ProcessLines_AbortOnThrow(provider, Tail(lines), st)
         ELSE IF line.kind \in {"done", "garbage"} THEN st
         ELSE LET content == extractResponseFromProvider(provider, line.body) IN
              IF content.threw THEN st
              ELSE IF content.text = ""
              THEN ProcessLines_AbortOnThrow(provider, Tail(lines), st)
              ELSE LET accumulatedText == st.accumulatedText \o content.text IN
                   ProcessLines_AbortOnThrow(provider, Tail(lines),
                       [accumulatedText |-> accumulatedText,
                        updates |-> Append(st.updates, accumulatedText)])

\* lines 292-312: the handler's loop over the non-blank lines of one chunk;
\* st is [accumulatedText, updates], updates being the values passed to
\* onStreamingUpdate so far
RECURSIVE ProcessLines(_, _, _)
ProcessLines(provider, lines, st) ==
    IF lines = <<>> THEN st
    ELSE LET line == Head(lines) IN
         IF line.kind \in {"other", "blank"} THEN ProcessLines(provider, Tail(lines), st)
         ELSE IF line.kind = "done" THEN st
         ELSE IF line.kind = "garbage" THEN ProcessLines(provider, Tail(lines), st)
         ELSE LET content == extractResponseFromProvider(provider, line.body) IN
              IF content.threw \/ content.text = ""
              THEN ProcessLines(provider, Tail(lines), st)
              ELSE LET accumulatedText == st.accumulatedText \o content.text IN
                   ProcessLines(provider, Tail(lines),
                       [accumulatedText |-> accumulatedText,
                        updates |-> Append(st.updates, accumulatedText)])

\* line 290: split on newlines and drop the blank lines
NonBlank(line) == line.kind # "blank"

\* a handler that passes only the last value of a chunk to the callback
OnData_OneUpdatePerChunk(rec, chunk) ==
    LET st == ProcessLines(rec.provider, SelectSeq(chunk, NonBlank),
                           [accumulatedText |-> rec.accumulatedText, updates |-> rec.updates])
    IN  [rec EXCEPT !.accumulatedText = st.accumulatedText,
                    !.updates = IF st.accumulatedText = rec.accumulatedText THEN rec.updates
                                ELSE Append(rec.updates, st.accumulatedText)]

\* lines 288-316: the data handler, run on one chunk
OnData(rec, chunk) ==
    LET st == ProcessLines(rec.provider, SelectSeq(chunk, NonBlank),
                           [accumulatedText |-> rec.accumulatedText, updates |-> rec.updates])
    IN  [rec EXCEPT !.accumulatedText = st.accumulatedText, !.updates = st.updates]

\* ------------------------------------------------------------- actions
NotCalled == [called |-> FALSE]

\* what a stream has delivered to its data handler so far: whether a [DONE]
\* frame was among it, and the non-empty text increments of its frames
NothingSeen == [done |-> FALSE, increments |-> <<>>, bad |-> 0]

Init ==
    /\ env \in [KeySet -> Credentials]
    /\ now = 0
    /\ responseCache = EmptyMap
    /\ call = [c \in Calls |-> IdleCall]
    /\ stored = EmptyMap
    /\ wiped = {}
    /\ resolved = NotCalled
    /\ listed = NotCalled
    /\ insights = NotCalled
    /\ seen = [c \in Calls |-> NothingSeen]

\* every provider has a credential
AllCredentials == [k \in KeySet |-> "sk"]

InitStream == Init /\ env = AllCredentials

Settled(rec) == rec.pc \in {"done", "failed"}

\* The continuation of a settled promise is a microtask: it runs before the
\* event loop handles another I/O event, timer or user action.
NoMicrotask == \A c \in Calls : ~Settled(call[c])

\* the entry for request exists but has expired
Expired(request) ==
    /\ cacheKey[request] \in DOMAIN responseCache
    /\ ~CacheHit(request)

NewCall(request) ==
    [IdleCall EXCEPT !.req = request,
                     !.sawExpired = ~request.streaming /\ Expired(request)]

\* a caller invokes sendRequest(request); it takes the first free slot
Start(c, request) ==
    /\ call[c].pc = "idle"
    /\ NoMicrotask
    /\ \A d \in Calls : d < c => call[d].pc # "idle"
    /\ call' = [call EXCEPT ![c] = Enter(NewCall(request), request, 0)]
    /\ wiped' = {}
    /\ UNCHANGED <<insights, seen, env, now, responseCache, stored, resolved, listed>>

\* the call found no entry when it checked the cache, and finds one now
MissedThenFound(rec) ==
    /\ ~rec.req.streaming /\ rec.depth = 0 /\ ~rec.sawExpired
    /\ cacheKey[rec.cur] \in DOMAIN responseCache

\* the non-streaming axios.post resolves with a body (lines 327-359)
Respond(c, body) ==
    /\ call[c].pc = "awaitPost"
    /\ NoMicrotask
    /\ ~call[c].streamPath
    /\ LET rec == call[c]
           extracted == extractResponseFromProvider(rec.provider, body)
           llmResponse == SyncResponse(rec, body)
       IN  IF extracted.threw
           THEN /\ call' = [call EXCEPT ![c] = Catch(rec, extracted.message)]
                /\ UNCHANGED <<responseCache, stored>>
           ELSE /\ call' = [call EXCEPT ![c] =
                              [rec EXCEPT !.pc = "done", !.via = "sync",
                                          !.result = llmResponse,
                                          !.raced = MissedThenFound(rec)]]
                /\ responseCache' = CachePut(responseCache, rec.cur, llmResponse)
                /\ stored' = (Fingerprint(rec.cur) :>
                                [response |-> llmResponse, at |-> now]) @@ stored
    /\ UNCHANGED <<insights, seen, env, now, wiped, resolved, listed>>

\* axios.post rejects (either path): the catch block runs
PostFails(c, message) ==
    /\ call[c].pc = "awaitPost"
    /\ NoMicrotask
    /\ call' = [call EXCEPT ![c] = Catch(call[c], message)]
    /\ UNCHANGED <<insights, seen, env, now, responseCache, stored, wiped, resolved, listed>>

\* the streaming axios.post resolves: the data handler is registered and the
\* function returns (lines 286-324)
StreamOpens(c) ==
    /\ call[c].pc = "awaitPost"
    /\ NoMicrotask
    /\ call[c].streamPath
    /\ call' = [call EXCEPT ![c] =
                  [@ EXCEPT !.pc = "done", !.via = "stream", !.stream = TRUE,
                            !.accumulatedText = "",
                            !.result = StreamResponse(call[c], "")]]
    /\ wiped' = {}
    /\ UNCHANGED <<insights, seen, env, now, responseCache, stored, resolved, listed>>

\* the caller's continuation takes the result or the error of a settled call
Deliver(c) ==
    /\ Settled(call[c])
    /\ call' = [call EXCEPT ![c] = IF @.stream THEN [@ EXCEPT !.pc = "streaming"]
                                   ELSE IdleCall]
    /\ UNCHANGED <<insights, seen, env, now, responseCache, stored, wiped, resolved, listed>>

\* the stream delivers a chunk to the data handler (lines 288-316)
StreamData(c, chunk) ==
    /\ call[c].pc = "streaming"
    /\ NoMicrotask
    /\ LET after == OnData(call[c], chunk) IN
           /\ Len(after.accumulatedText) <= MaxText
           /\ call' = [call EXCEPT ![c] = after]
    /\ wiped' = {}
    /\ UNCHANGED <<insights, seen, env, now, responseCache, stored, resolved, listed>>

\* the stream ends; no handler is registered for that, the slot is free again
StreamEnds(c) ==
    /\ call[c].pc = "streaming"
    /\ NoMicrotask
    /\ call' = [call EXCEPT ![c] = IdleCall]
    /\ wiped' = {}
    /\ UNCHANGED <<insights, seen, env, now, responseCache, stored, resolved, listed>>

\* clearCache()
ClearCache ==
    /\ NoMicrotask
    /\ responseCache' = ClearedCache(responseCache)
    /\ stored' = EmptyMap
    /\ wiped' = DOMAIN stored
    /\ UNCHANGED <<insights, seen, env, now, call, resolved, listed>>

\* time passes
Tick ==
    /\ NoMicrotask
    /\ now < MaxTicks * TickMs
    /\ now' = now + TickMs
    /\ wiped' = {}
    /\ UNCHANGED <<insights, seen, env, responseCache, call, stored, resolved, listed>>

Next ==
    \/ \E c \in Calls, request \in Requests : Start(c, request)
    \/ \E c \in Calls, body \in Bodies : Respond(c, body)
    \/ \E c \in Calls, message \in TransportErrors : PostFails(c, message)
    \/ \E c \in Calls : StreamOpens(c)
    \/ \E c \in Calls : Deliver(c)
    \/ \E c \in Calls, chunk \in StreamChunks : StreamData(c, chunk)
    \/ \E c \in Calls : StreamEnds(c)
    \/ ClearCache
    \/ Tick

Spec == Init /\ [][Next]_vars

\* ------------------------------------------- the cache and its callers
\* Requests without a callback never take the streaming branch (line 266);
\* the streaming branch neither reads nor writes the cache.
SyncRequests == {r \in Requests : ~r.onStreamingUpdate}

NextSync ==
    \/ \E c \in Calls, request \in SyncRequests : Start(c, request)
    \/ \E c \in Calls, body \in Bodies : Respond(c, body)
    \/ \E c \in Calls, message \in TransportErrors : PostFails(c, message)
    \/ \E c \in Calls : Deliver(c)
    \/ ClearCache
    \/ Tick

SpecSync == Init /\ [][NextSync]_vars

\* ---------------------------------------------------- the registry alone
\* names a caller may pass to getBestProvider
ResolveNames ==
    {Undefined, "", "openai", "claude", "deepseek", "OpenAI", "Claude", "DeepSeek", "gemini"}

Resolve(name) ==
    /\ resolved' = [called |-> TRUE, name |-> name, result |-> getBestProvider(name)]
    /\ UNCHANGED <<insights, seen, env, now, responseCache, call, stored, wiped, listed>>

List ==
    /\ listed' = [called |-> TRUE, result |-> getAvailableProviders]
    /\ UNCHANGED <<insights, seen, env, now, responseCache, call, stored, wiped, resolved>>

NextRegistry ==
    \/ \E name \in ResolveNames : Resolve(name)
    \/ List

SpecRegistry == Init /\ [][NextRegistry]_vars


\* ------------------------------------------------------------ the claims
\* what sendRequest(request) would do if a caller invoked it in this state
WouldDo(request) == Enter(NewCall(request), request, 0)

NonStreaming == {r \in Requests : ~r.streaming}

Fresh(fp) == fp \in DOMAIN stored /\ now - stored[fp].at < CACHE_DURATION

\* C1, as stated: once a non-streaming call has returned a response, an
\* identical call started less than 30 minutes later (here: at once), with no
\* clearCache in between, returns that same response without a transport call.
C1_Original ==
    \A c \in Calls :
        (call[c].pc = "done" /\ ~call[c].req.streaming) =>
            /\ WouldDo(call[c].req).pc = "done"
            /\ WouldDo(call[c].req).result = call[c].result
            /\ WouldDo(call[c].req).posts = 0

\* C1, amended: a response is stored under the fingerprint of the invocation
\* that dispatched it (after a fallback: the one with the provider cleared); a
\* non-streaming call whose fingerprint has such a store less than 30 minutes
\* old, with no clearCache and no other store under it since, returns exactly
\* that response and issues no transport call.
C1_CachedWithinTtl ==
    /\ \A c \in Calls :
          (call[c].pc = "done" /\ call[c].via = "sync") =>
              /\ Fingerprint(call[c].cur) \in DOMAIN stored
              /\ stored[Fingerprint(call[c].cur)] = [response |-> call[c].result, at |-> now]
    /\ \A r \in NonStreaming :
          Fresh(Fingerprint(r)) =>
              LET would == WouldDo(r) IN
                 /\ would.pc = "done"
                 /\ would.via = "cache"
                 /\ would.result = stored[Fingerprint(r)].response
                 /\ would.posts = 0

C1_Witness ==
    \E c \in Calls :
        /\ call[c].pc = "done" /\ call[c].via = "cache"
        /\ call[c].posts = 0
        /\ Fresh(Fingerprint(call[c].req))
        /\ call[c].result = stored[Fingerprint(call[c].req)].response

\* C2, as stated: no step of a call with streaming = true reads the cache
\* (returns from it) or changes it.
C2_Original ==
    [][\A c \in Calls :
          (call'[c] # call[c] /\ (call[c].req.streaming \/ call'[c].req.streaming)) =>
              /\ responseCache' = responseCache
              /\ call'[c].via # "cache"]_vars

\* C3: a failed dispatch of a call that names a provider re-invokes
\* sendRequest once, with the provider cleared, and the re-invocation never
\* re-invokes again: at most one level of recursion and two transport calls.
C3_BoundedFallback ==
    \A c \in Calls :
        /\ call[c].depth = IF TruthyStr(call[c].req.provider) /\ call[c].fails >= 1 THEN 1 ELSE 0
        /\ call[c].depth = 1 => call[c].cur = [call[c].req EXCEPT !.provider = Undefined]
        /\ call[c].depth = 0 => call[c].cur = call[c].req
        /\ call[c].posts <= call[c].depth + 1
        /\ call[c].posts <= 2
        /\ call[c].fails <= 2

C3_Witness ==
    \E c \in Calls :
        /\ call[c].pc = "failed" /\ call[c].depth = 1
        /\ call[c].posts = 2 /\ call[c].fails = 2
        /\ TruthyStr(call[c].req.provider)

\* C4, as stated: the fallback attempt is dispatched to a provider other than
\* the one whose dispatch just failed.
C4_Original ==
    \A c \in Calls :
        (call[c].depth = 1 /\ call[c].pc = "awaitPost") => call[c].provider.name # call[c].prev

\* C5, as stated: a streaming call has returned only when its stream has
\* completed, its text is the accumulated text, and it carries no token usage.
C5_Original ==
    \A c \in Calls :
        (call[c].via = "stream" /\ call[c].pc \in {"done", "streaming"}) =>
            /\ ~call[c].stream
            /\ call[c].result.text = call[c].accumulatedText
            /\ call[c].result.tokenUsage = NoUsage

\* C5, amended: a streaming call returns when the transport call resolves,
\* with the stream still open and nothing accumulated; its text is the empty
\* placeholder and stays so; the accumulated text is the last value passed to
\* onStreamingUpdate (empty if there was none); no token usage.
C5_PlaceholderReturned ==
    \A c \in Calls :
        call[c].via = "stream" =>
            /\ call[c].stream
            /\ call[c].pc = "done" => call[c].accumulatedText = "" /\ call[c].updates = <<>>
            /\ call[c].result = [text |-> "", provider |-> call[c].provider.name,
                                 model |-> call[c].model, tokenUsage |-> NoUsage]
            /\ call[c].accumulatedText =
                  IF call[c].updates = <<>> THEN ""
                  ELSE call[c].updates[Len(call[c].updates)]

C5_Witness ==
    \E c \in Calls :
        /\ call[c].pc = "streaming"
        /\ call[c].accumulatedText = "aa"
        /\ call[c].updates = <<"a", "aa">>
        /\ call[c].result.text = ""


Available == {k \in KeySet : env[k] # ""}

\* the available provider that no other available provider precedes
LowestPriority(p) ==
    /\ \E k \in Available : p = LLM_PROVIDERS[k]
    /\ \A k \in Available : p.priority <= LLM_PROVIDERS[k].priority

\* C6: getBestProvider returns the named provider when the name is known and
\* has a credential, whatever its priority; otherwise the available provider
\* with the lowest priority number; none only when no provider has a credential.
C6_Resolution ==
    resolved.called =>
        /\ (resolved.name \in Available) => resolved.result = LLM_PROVIDERS[resolved.name]
        /\ (resolved.name \notin Available /\ Available # {}) => LowestPriority(resolved.result)
        /\ (resolved.result = NoProvider) <=> (Available = {})

C6_Witness ==
    /\ resolved.called
    /\ resolved.name = "deepseek"
    /\ Available = KeySet
    /\ resolved.result.name = "DeepSeek"

\* C7: getAvailableProviders returns exactly the providers that have a
\* credential, each once, in ascending order of priority.
C7_Listing ==
    listed.called =>
        /\ {listed.result[i] : i \in 1..Len(listed.result)} = {LLM_PROVIDERS[k] : k \in Available}
        /\ Len(listed.result) = Cardinality(Available)
        /\ \A i, j \in 1..Len(listed.result) :
              i < j => listed.result[i].priority < listed.result[j].priority

C7_Witness ==
    /\ listed.called
    /\ Len(listed.result) = 2
    /\ env["openai"] = ""
    /\ listed.result[1].name = "Claude" /\ listed.result[2].name = "DeepSeek"

\* the cache holds what the stores since the last clearCache put there
CacheIsHistory ==
    \A r \in Requests :
        LET fp == Fingerprint(r)
            key == cacheKey[r]
        IN  IF fp \in DOMAIN stored
            THEN /\ key \in DOMAIN responseCache
                 /\ responseCache[key] =
                       [response |-> stored[fp].response, timestamp |-> stored[fp].at]
            ELSE key \notin DOMAIN responseCache

C9_Original ==
    NoMicrotask =>
        \A r \in NonStreaming :
            Fingerprint(r) \in wiped =>
                LET would == WouldDo(r) IN
                   /\ would.pc = "awaitPost"
                   /\ would.posts = 1

\* C9, amended: clearCache leaves no entry; afterwards a non-streaming
\* request misses and dispatches unless a call that was in flight has stored
\* a response under its fingerprint since the clear, and what the cache
\* serves was always stored after the last clear.
C9_ClearThenMiss ==
    /\ (DOMAIN stored = {}) => (DOMAIN responseCache = {})
    /\ \A r \in NonStreaming :
          (NoMicrotask /\ Fingerprint(r) \notin DOMAIN stored /\ Available # {}) =>
              LET would == WouldDo(r) IN
                 /\ would.pc = "awaitPost"
                 /\ would.posts = 1
    /\ \A c \in Calls :
          call[c].via = "cache" =>
              /\ Fingerprint(call[c].cur) \in DOMAIN stored
              /\ call[c].result = stored[Fingerprint(call[c].cur)].response

C9_Witness ==
    /\ wiped # {}
    /\ DOMAIN responseCache = {}
    /\ \E c \in Calls : call[c].pc = "awaitPost" /\ Fingerprint(call[c].cur) \in wiped

\* C10: a call with no provider name whose dispatch fails (the fallback
\* re-invocation included) has made one transport call at its level, is not
\* retried, fails with the communication error that wraps the message of the
\* failure, and has not changed the cache.
C10_TerminalFailure ==
    /\ CacheIsHistory
    /\ \A c \in Calls :
          (call[c].pc = "failed" /\ call[c].fails >= 1) =>
              /\ ~TruthyStr(call[c].cur.provider)
              /\ call[c].cause \in TransportErrors \cup {TypeErrorMessage}
              /\ call[c].result = [error |-> "Eroare la comunicarea cu API-ul LLM: " \o call[c].cause]
              /\ call[c].posts = call[c].depth + 1
              /\ call[c].fails = call[c].posts
              /\ ~TruthyStr(call[c].req.provider) => call[c].posts = 1

C10_Witness ==
    \E c \in Calls :
        /\ call[c].pc = "failed" /\ call[c].depth = 1 /\ call[c].posts = 2
        /\ call[c].result = [error |-> "Eroare la comunicarea cu API-ul LLM: " \o TypeErrorMessage]
        /\ DOMAIN responseCache # {}

\* C11: when no provider has a credential, a call that misses the cache fails
\* with the no-provider error itself (not behind the communication prefix),
\* having issued no transport call and without a re-invocation, whether or
\* not it names a provider; and only then does a call fail with that error.
C11_NoProvider ==
    /\ (Available = {}) =>
          \A r \in Requests :
              LET would == WouldDo(r) IN
                 /\ would.pc = "failed"
                 /\ would.result =
                       [error |-> "Nu a fost gasit niciun provider LLM disponibil. Verificati cheile API."]
                 /\ would.posts = 0 /\ would.fails = 0 /\ would.depth = 0
    /\ \A c \in Calls :
          (call[c].pc = "failed" /\ call[c].fails = call[c].depth) =>
              /\ Available = {}
              /\ call[c].posts = call[c].depth
              /\ call[c].result =
                    [error |-> "Nu a fost gasit niciun provider LLM disponibil. Verificati cheile API."]

C11_Witness ==
    \E c \in Calls :
        /\ call[c].pc = "failed"
        /\ call[c].req.provider = "claude"
        /\ call[c].result =
              [error |-> "Nu a fost gasit niciun provider LLM disponibil. Verificati cheile API."]
        /\ call[c].posts = 0 /\ call[c].depth = 0 /\ call[c].fails = 0

\* the responses a dispatch of the call rec can produce
OwnResponses(rec) ==
    {SyncResponse(rec, body) :
        body \in {b \in Bodies : ~extractResponseFromProvider(rec.provider, b).threw}}

\* C12: a non-streaming call in flight reserves nothing: while its fingerprint
\* has no fresh entry, an identical request misses and dispatches as well; a
\* call that completes returns the response of its own dispatch and leaves
\* that response, with the current time, as the one entry of its fingerprint,
\* whatever a concurrent call stored there before.
C12_ConcurrentMisses ==
    /\ \A c \in Calls :
          (call[c].pc = "awaitPost" /\ ~call[c].cur.streaming
              /\ ~Fresh(Fingerprint(call[c].cur))) =>
              LET would == WouldDo(call[c].cur) IN
                 /\ would.pc = "awaitPost"
                 /\ would.posts = 1
    /\ \A c \in Calls :
          (call[c].pc = "done" /\ call[c].via = "sync") =>
              /\ call[c].result \in OwnResponses(call[c])
              /\ stored[Fingerprint(call[c].cur)].response = call[c].result
              /\ responseCache[cacheKey[call[c].cur]].response = call[c].result
              /\ responseCache[cacheKey[call[c].cur]].timestamp = now

\* two identical calls both missed and dispatched; one has completed and
\* stored "a", the other is still in flight and then completes with "b"
C12_Witness ==
    \E c \in Calls :
        /\ call[c].pc = "done" /\ call[c].via = "sync"
        /\ ~call[c].req.streaming /\ call[c].depth = 0 /\ ~call[c].sawExpired
        /\ call[c].raced
        /\ call[c].result.text = "b"
        /\ responseCache[cacheKey[call[c].req]].response.text = "b"

\* ------------------------------------------------------ suggestInsights
\* longest response text, in characters
MaxChars == 4

\* a text is a sequence of characters
TextChars == {"a", "b", " ", "\n"}
Texts == UNION {[1..n -> TextChars] : n \in 0..MaxChars}

\* the characters String.prototype.trim removes
WhiteSpace == {" ", "\t", "\n", "\r"}

\* text.split('\n'): the pieces between the line breaks, at least one piece
RECURSIVE Split(_, _)
Split(text, piece) ==
    IF text = <<>> THEN <<piece>>
    ELSE IF Head(text) = "\n" THEN <<piece>> \o Split(Tail(text), <<>>)
    ELSE Split(Tail(text), Append(piece, Head(text)))

RECURSIVE TrimStart(_)
TrimStart(line) ==
    IF line # <<>> /\ Head(line) \in WhiteSpace THEN TrimStart(Tail(line)) ELSE line

RECURSIVE TrimEnd(_)
TrimEnd(line) ==
    IF line # <<>> /\ line[Len(line)] \in WhiteSpace
    THEN TrimEnd(SubSeq(line, 1, Len(line) - 1)) ELSE line

\* a trim that removes nothing
Trim_Nothing(line) == line

\* line => line.trim()
Trim(line) == TrimEnd(TrimStart(line))

\* line => line.length > 0
HasLength(line) == Len(line) > 0

\* lines 454-457, applied to response.text
ParseInsights(text) ==
    LET lines == Split(text, <<>>)
        trimmed == [i \in 1..Len(lines) |-> Trim(lines[i])]
    IN  SelectSeq(trimmed, HasLength)

\* suggestInsights receives a response with this text and returns
suggestInsights(text) ==
    /\ insights' = [called |-> TRUE, text |-> text, result |-> ParseInsights(text)]
    /\ UNCHANGED <<seen, env, now, responseCache, call, stored, wiped, resolved, listed>>

NextInsights == \E text \in Texts : suggestInsights(text)

SpecInsights == InitStream /\ [][NextInsights]_vars

Visible(ch) == ch \notin WhiteSpace

RECURSIVE Flatten(_)
Flatten(ss) == IF ss = <<>> THEN <<>> ELSE Head(ss) \o Flatten(Tail(ss))

\* the number of line breaks before position p of text
BreaksBefore(text, p) == Cardinality({q \in 1..(p - 1) : text[q] = "\n"})

\* the lines of text (numbered by the breaks before them) that hold a visible character
VisibleLines(text) == {BreaksBefore(text, p) : p \in {q \in 1..Len(text) : Visible(text[q])}}

\* C13: suggestInsights returns one string for each line of the text that has
\* a visible character, in the order of the text; each is a piece of the
\* text without a line break and without whitespace at either end, never the
\* empty string; nothing visible is lost, and a text without a visible
\* character gives the empty sequence.
C13_Insights ==
    insights.called =>
        LET text == insights.text
            result == insights.result
        IN  /\ Len(result) = Cardinality(VisibleLines(text))
            /\ SelectSeq(Flatten(result), Visible) = SelectSeq(text, Visible)
            /\ \A i \in 1..Len(result) :
                  /\ result[i] # <<>>
                  /\ Visible(result[i][1]) /\ Visible(result[i][Len(result[i])])
                  /\ \A k \in 1..Len(result[i]) : result[i][k] # "\n"
                  /\ \E p \in 1..Len(text) : SubSeq(text, p, p + Len(result[i]) - 1) = result[i]
            /\ (SelectSeq(text, Visible) = <<>>) => result = <<>>

C13_Witness ==
    /\ insights.called
    /\ insights.text = <<" ", "a", "\n", "b">>
    /\ insights.result = << <<"a">>, <<"b">> >>

\* --------------------------------------------------- the stream handler
\* a data frame carrying the text increment t
Frame(t) == Line("json", BodyText(t, 0))

\* the lines a chunk can hold: frames with text, a frame with an empty
\* increment, a frame whose body lacks the expected list (extraction throws),
\* a frame that is not JSON (JSON.parse throws), and the [DONE] frame
FeedLines ==
    {Frame("a"), Frame("b"), Frame(""), Line("json", BodyNoList),
     Line("garbage", BodyNoList), Line("done", BodyNoList)}

FeedChunks == UNION {[1..n -> FeedLines] : n \in 1..MaxLines}

\* streaming requests that leave the choice of the provider to the registry
StreamingRequests ==
    {r \in Requests : r.streaming /\ r.onStreamingUpdate /\ r.provider = Undefined}

\* the lines of a chunk that the loop reaches: those before its first [DONE]
Reached(chunk) ==
    LET dones == {i \in 1..Len(chunk) : chunk[i].kind = "done"}
        first == IF dones = {} THEN Len(chunk) + 1
                 ELSE CHOOSE i \in dones : \A j \in dones : i <= j
    IN  SubSeq(chunk, 1, first - 1)

IsTextFrame(line) == line \in {Frame("a"), Frame("b")}
IsBadFrame(line) == line \in {Line("json", BodyNoList), Line("garbage", BodyNoList)}
TextOfFrame(line) == IF line = Frame("a") THEN "a" ELSE "b"

\* what the history of a stream becomes when the handler has run on chunk:
\* done: a [DONE] frame was received; increments: the non-empty increments of
\* the frames reached; bad: 1 once a bad frame was reached, 2 once a text
\* frame was reached after a bad one
Saw(s, chunk) ==
    LET reached == Reached(chunk)
        frames == SelectSeq(reached, IsTextFrame)
        bads == {i \in 1..Len(reached) : IsBadFrame(reached[i])}
        later == \E i \in bads : \E j \in (i + 1)..Len(reached) : IsTextFrame(reached[j])
    IN  [done |-> s.done \/ Len(reached) < Len(chunk),
         increments |-> s.increments \o [i \in 1..Len(frames) |-> TextOfFrame(frames[i])],
         bad |-> IF later \/ (s.bad >= 1 /\ frames # <<>>) THEN 2
                 ELSE IF bads # {} THEN 1 ELSE s.bad]

\* the stream delivers a chunk to the data handler (lines 288-316)
Feed(c, chunk) ==
    /\ call[c].pc = "streaming"
    /\ NoMicrotask
    /\ LET after == OnData(call[c], chunk) IN
           /\ Len(after.accumulatedText) <= MaxText
           /\ call' = [call EXCEPT ![c] = after]
    /\ seen' = [seen EXCEPT ![c] = Saw(@, chunk)]
    /\ UNCHANGED <<insights, env, now, responseCache, stored, wiped, resolved, listed>>

\* the stream ends
Close(c) ==
    /\ call[c].pc = "streaming"
    /\ NoMicrotask
    /\ call' = [call EXCEPT ![c] = IdleCall]
    /\ seen' = [seen EXCEPT ![c] = NothingSeen]
    /\ UNCHANGED <<insights, env, now, responseCache, stored, wiped, resolved, listed>>

NextStream ==
    \/ \E c \in Calls, request \in StreamingRequests : Start(c, request)
    \/ \E c \in Calls : StreamOpens(c)
    \/ \E c \in Calls : Deliver(c)
    \/ \E c \in Calls, chunk \in FeedChunks : Feed(c, chunk)
    \/ \E c \in Calls : Close(c)

SpecStream == InitStream /\ [][NextStream]_vars

RECURSIVE Joined(_)
Joined(ss) == IF ss = <<>> THEN "" ELSE Head(ss) \o Joined(Tail(ss))

\* C14, as stated: once a [DONE] frame has been processed, nothing changes the
\* accumulated text or invokes onStreamingUpdate: not a later line of the
\* same chunk, and not a line of a chunk received afterwards.
C14_Original ==
    [][\A c \in Calls :
          (call[c].pc = "streaming" /\ call'[c].pc = "streaming") =>
              /\ seen[c].done =>
                    /\ call'[c].accumulatedText = call[c].accumulatedText
                    /\ call'[c].updates = call[c].updates
              /\ (~seen[c].done /\ seen'[c].done) =>
                    /\ call'[c].accumulatedText = Joined(seen'[c].increments)
                    /\ Len(call'[c].updates) = Len(seen'[c].increments)]_vars

\* C15: a frame that is not JSON, or from which extraction throws, changes
\* nothing: the accumulated text is the concatenation of the increments of the
\* text frames reached, before and after it, with one callback for each; the
\* call that returned stays returned, with no error.
C15_BadFramesSwallowed ==
    \A c \in Calls :
        call[c].pc = "streaming" =>
            /\ call[c].accumulatedText = Joined(seen[c].increments)
            /\ Len(call[c].updates) = Len(seen[c].increments)
            /\ call[c].via = "stream"
            /\ DOMAIN call[c].result = {"text", "provider", "model", "tokenUsage"}

C15_Witness ==
    \E c \in Calls :
        /\ call[c].pc = "streaming"
        /\ seen[c].bad = 2
        /\ seen[c].increments = <<"a", "b">>
        /\ call[c].accumulatedText = "ab"

\* C16: onStreamingUpdate is invoked once for each frame with a non-empty
\* increment and for no other; the i-th value passed is the concatenation of
\* the first i increments of this call's own stream, and the accumulated text
\* is the last value passed (empty before the first).
C16_PrefixChain ==
    \A c \in Calls :
        call[c].pc = "streaming" =>
            /\ Len(call[c].updates) = Len(seen[c].increments)
            /\ \A i \in 1..Len(call[c].updates) :
                  /\ seen[c].increments[i] # ""
                  /\ call[c].updates[i] = Joined(SubSeq(seen[c].increments, 1, i))
                  /\ call[c].updates[i] =
                        (IF i = 1 THEN "" ELSE call[c].updates[i - 1]) \o seen[c].increments[i]
            /\ call[c].accumulatedText =
                  (IF call[c].updates = <<>> THEN ""
                   ELSE call[c].updates[Len(call[c].updates)])

C16_Witness ==
    /\ call[1].pc = "streaming" /\ call[2].pc = "streaming"
    /\ call[1].updates = <<"a", "ab">>
    /\ call[2].updates = <<"b">>
    /\ call[2].accumulatedText = "b"

\* C17: extraction does not throw on a well-formed body whose expected path
\* is absent: no call enters the failure path with the error raised by
\* reading the first element of a missing choices/content list.
C17_Original ==
    \A c \in Calls : call[c].cause # TypeErrorMessage

\* C18: resolution recognises the name the listing exposes: whenever the name
\* passed to getBestProvider is the name field of a descriptor that
\* getAvailableProviders returns, the result is that descriptor.
C18_Original ==
    resolved.called =>
        \A i \in 1..Len(getAvailableProviders) :
            resolved.name = getAvailableProviders[i].name =>
                resolved.result = getAvailableProviders[i]

\* ------------------------------------------------- the cache key alone
\* one caller at a time, non-streaming requests, every provider available
TextBodies == {BodyText("a", 1), BodyText("b", 2)}

NextKeys ==
    \/ \E request \in KeyRequests : Start(1, request)
    \/ \E body \in TextBodies : Respond(1, body)
    \/ Deliver(1)

SpecKeys == InitStream /\ [][NextKeys]_vars

\* C19: every response served from the cache was stored by a request with
\* the same five fingerprint components as the request it is served to, an
\* explicit temperature of 0 and fields that contain "-" included.
C19_Original ==
    \A c \in Calls :
        (call[c].pc = "done" /\ call[c].via = "cache") =>
            /\ Fingerprint(call[c].cur) \in DOMAIN stored
            /\ call[c].result = stored[Fingerprint(call[c].cur)].response

\* C20: clearCache leaves calls in flight alone. While no request has been
\* issued since a clearCache that emptied the cache, every entry of the cache
\* was stored after the clear by a call that was already in flight, and a
\* non-streaming call that completes in that window has its response in the
\* cache, where an identical request arriving now would find it and be
\* served it without a transport call.
C20_ClearSparesCalls ==
    (wiped # {}) =>
        /\ \A key \in DOMAIN responseCache :
              /\ responseCache[key].timestamp = now
              /\ \E r \in Requests :
                    /\ cacheKey[r] = key
                    /\ Fingerprint(r) \in DOMAIN stored
                    /\ stored[Fingerprint(r)].response = responseCache[key].response
        /\ \A c \in Calls :
              (call[c].pc = "done" /\ call[c].via = "sync" /\ ~call[c].cur.streaming) =>
                  LET would == WouldDo(call[c].cur) IN
                     /\ cacheKey[call[c].cur] \in DOMAIN responseCache
                     /\ responseCache[cacheKey[call[c].cur]].response = call[c].result
                     /\ would.pc = "done"
                     /\ would.via = "cache"
                     /\ would.posts = 0
                     /\ would.result = call[c].result

C20_Witness ==
    /\ wiped # {}
    /\ \E c \in Calls :
          /\ call[c].pc = "done" /\ call[c].via = "sync"
          /\ ~call[c].req.streaming /\ call[c].depth = 0
          /\ Fingerprint(call[c].cur) \notin wiped
          /\ DOMAIN responseCache = {cacheKey[call[c].cur]}
          /\ responseCache[cacheKey[call[c].cur]].response = call[c].result

=============================================================================
